---- MODULE Spec2Model ----
(***************************************************************************)
(* LexiMemo AI: the SM-2 review engine (services/reviewEngine.ts), the     *)
(* local store (services/storageService.ts) and the background handlers    *)
(* that drive them (background/index.ts).                                  *)
(*                                                                         *)
(* Numbers.  Timestamps are integer milliseconds, as in the code.          *)
(* easeFactor is a JavaScript double in the code; every value the engine   *)
(* adds to it is a multiple of 0.01, so the model keeps easeFactor in      *)
(* hundredths (2.5 is 250) and computes in exact decimal arithmetic.       *)
(* Math.round is floor(x + 0.5).  The binary rounding error of doubles is  *)
(* outside the model.                                                      *)
(***************************************************************************)
EXTENDS Integers, Sequences, FiniteSets, TLC

VARIABLES
    handled,      \* number of operations handled so far (bounds the run)
    clock,        \* what Date.now() returns
    storage,      \* chrome.storage.local[learningItems]: a sequence of items
    pendingSync,  \* chrome.storage.local[pendingSync]: a sequence of items
    badge,        \* the number shown on the action badge, 0 for the empty text
    nextId,       \* source of fresh ids for generateId
    response,     \* the last MessageResponse passed to sendResponse
    call,         \* the last call of the review engine: arguments and result
    tasks,        \* the handlers in flight: where each one is and what it holds
    cloud,        \* Firestore users/<uid>/learningItems: a sequence of documents
    currentUser,  \* the signed-in Firebase user, Null when not connected
    sync,         \* the performFullSync in flight: where it is and what it holds
    deleted,      \* history: the ids whose deleteLearningItem has completed
    uiStore,      \* useUIStore: currentPage and reviewQueue
    reviewPage,   \* the mounted ReviewPage: its useState values
    mutations,    \* the updateItemMutation calls in flight, with their closures
    appStore      \* useAppStore: learningItems, reviewQueue and reviewStats

vars == <<handled, clock, storage, pendingSync, badge, nextId, response, call,
          tasks, cloud, currentUser, sync, deleted,
          uiStore, reviewPage, mutations, appStore>>

\* the state of the popup window
popup == <<uiStore, reviewPage, mutations, appStore>>

----------------------------------------------------------------------------
(* Bounds of the model *)

MaxHandled == 3        \* operations handled in a run
MaxClockSteps == 3     \* half-day steps the clock takes
MaxHorizonDays == 20   \* no schedule reaches further than this many days
MaxEase == 300         \* reviews that would raise easeFactor above it are cut
MaxArgInterval == 6    \* intervals of the arbitrary items given to the engine
MaxArgEase == 300      \* ease factors of the arbitrary items given to the engine
MaxQueryItems == 3     \* items of the small collections given to the queries
MaxQueryDay == 4       \* last day on which an item of a collection was reviewed
LargeCollection == 201 \* items of the large collections given to the queries
MaxTasks == 2          \* submitReview handlers in flight at once
MaxSyncs == 1          \* full syncs run one after the other
MaxSyncHandled == 1    \* operations handled in a run with a full sync
MaxSessions == 2       \* review sessions started in a run
MaxSessionItems == 3   \* items due when the popup is opened
MaxTick == 1           \* milliseconds between two reads of the clock in one action

----------------------------------------------------------------------------
(* Constants of the program *)

DEFAULT_EASE_FACTOR == 250
MIN_EASE_FACTOR == 130
INITIAL_INTERVAL == 1
MS_PER_DAY == 24 * 60 * 60 * 1000

Undefined == "<undefined>"
Quality == 0..5
HalfDay == MS_PER_DAY \div 2

----------------------------------------------------------------------------
(* reviewEngine.ts *)

\* Math.round on a non-negative number of hundredths
MathRound(hundredths) == (hundredths + 50) \div 100

\* 0.1 - (5 - q) * (0.08 + (5 - q) * 0.02), in hundredths
EaseDelta(q) == 10 - (5 - q) * (8 + (5 - q) * 2)

\* the interval multiplied by the ease factor as adjusted by this review
NewInterval_UpdatedEase(item, result) ==
    LET e == item.easeFactor + EaseDelta(result.quality)
        updated == IF e < MIN_EASE_FACTOR THEN MIN_EASE_FACTOR ELSE e
    IN  IF result.quality >= 3
        THEN IF item.interval = 0 THEN 1
             ELSE IF item.interval = 1 THEN 6
             ELSE MathRound(item.interval * updated)
        ELSE 1

\* a failed review keeps the interval
NewInterval_FailKeeps(item, result) ==
    IF result.quality >= 3
    THEN IF item.interval = 0 THEN 1
         ELSE IF item.interval = 1 THEN 6
         ELSE MathRound(item.interval * item.easeFactor)
    ELSE item.interval

\* no second-step special case
NewInterval_NoSecondStep(item, result) ==
    IF result.quality >= 3
    THEN IF item.interval = 0 THEN 1
         ELSE MathRound(item.interval * item.easeFactor)
    ELSE 1

\* a failed review resets the interval to zero
NewInterval_FailZero(item, result) ==
    IF result.quality >= 3
    THEN IF item.interval = 0 THEN 1
         ELSE IF item.interval = 1 THEN 6
         ELSE MathRound(item.interval * item.easeFactor)
    ELSE 0

\* the branch for a stored interval of zero left out
NewInterval_NoZeroBranch(item, result) ==
    IF result.quality >= 3
    THEN IF item.interval = 1 THEN 6
         ELSE MathRound(item.interval * item.easeFactor)
    ELSE 1

\* Math.floor in the place of Math.round
NewInterval_Truncates(item, result) ==
    IF result.quality >= 3
    THEN IF item.interval = 0 THEN 1
         ELSE IF item.interval = 1 THEN 6
         ELSE (item.interval * item.easeFactor) \div 100
    ELSE 1

NewInterval(item, result) ==
    IF result.quality >= 3
    THEN IF item.interval = 0 THEN 1
         ELSE IF item.interval = 1 THEN 6
         ELSE MathRound(item.interval * item.easeFactor)
    ELSE 1

\* the clamp left out
NewEaseFactor_NoFloor(item, result) ==
    item.easeFactor + EaseDelta(result.quality)

\* an upper clamp at the default ease factor
NewEaseFactor_Ceiling(item, result) ==
    LET e == item.easeFactor + EaseDelta(result.quality)
    IN  IF e < MIN_EASE_FACTOR THEN MIN_EASE_FACTOR
        ELSE IF e > DEFAULT_EASE_FACTOR THEN DEFAULT_EASE_FACTOR ELSE e

NewEaseFactor(item, result) ==
    LET e == item.easeFactor + EaseDelta(result.quality)
    IN  IF e < MIN_EASE_FACTOR THEN MIN_EASE_FACTOR ELSE e

\* the next review scheduled from the stored interval
updateItemAfterReview_OldInterval(item, result, now) ==
    [item EXCEPT !.lastReviewedAt = now,
                 !.nextReviewAt = now + item.interval * MS_PER_DAY,
                 !.interval = NewInterval(item, result),
                 !.easeFactor = NewEaseFactor(item, result)]

\* the review also stamps createdAt
updateItemAfterReview_StampsCreated(item, result, now) ==
    [item EXCEPT !.createdAt = now,
                 !.lastReviewedAt = now,
                 !.nextReviewAt = now + NewInterval(item, result) * MS_PER_DAY,
                 !.interval = NewInterval(item, result),
                 !.easeFactor = NewEaseFactor(item, result)]

updateItemAfterReview(item, result, now) ==
    LET newInterval == NewInterval(item, result)
        newEaseFactor == NewEaseFactor(item, result)
        nextReviewAt == now + newInterval * MS_PER_DAY
    IN  [item EXCEPT !.lastReviewedAt = now,
                     !.nextReviewAt = nextReviewAt,
                     !.interval = newInterval,
                     !.easeFactor = newEaseFactor]

\* a new item counts as reviewed at creation
createLearningItem_Reviewed(id, content, translation, type, context, userId, now) ==
    [id |-> id, type |-> type, content |-> content, translation |-> translation,
     context |-> context, sourceUrl |-> Undefined, sourceTitle |-> Undefined,
     createdAt |-> now,
     lastReviewedAt |-> now,
     nextReviewAt |-> now + INITIAL_INTERVAL * MS_PER_DAY,
     interval |-> INITIAL_INTERVAL,
     easeFactor |-> DEFAULT_EASE_FACTOR,
     userId |-> IF userId = Undefined THEN "local" ELSE userId]

\* a new item is due at once
createLearningItem_DueNow(id, content, translation, type, context, userId, now) ==
    [id |-> id, type |-> type, content |-> content, translation |-> translation,
     context |-> context, sourceUrl |-> Undefined, sourceTitle |-> Undefined,
     createdAt |-> now,
     lastReviewedAt |-> 0,
     nextReviewAt |-> now,
     interval |-> INITIAL_INTERVAL,
     easeFactor |-> DEFAULT_EASE_FACTOR,
     userId |-> IF userId = Undefined THEN "local" ELSE userId]

createLearningItem(id, content, translation, type, context, userId, now) ==
    [id |-> id,
     type |-> type,
     content |-> content,
     translation |-> translation,
     context |-> context,
     sourceUrl |-> Undefined,
     sourceTitle |-> Undefined,
     createdAt |-> now,
     lastReviewedAt |-> 0,
     nextReviewAt |-> now + INITIAL_INTERVAL * MS_PER_DAY,
     interval |-> INITIAL_INTERVAL,
     easeFactor |-> DEFAULT_EASE_FACTOR,
     userId |-> IF userId = Undefined THEN "local" ELSE userId]

\* an item due exactly now is left out
getTodayReviewItems_Strict(items, now) ==
    LET due(item) == item.nextReviewAt < now
    IN  SelectSeq(items, due)

getTodayReviewItems(items, now) ==
    LET due(item) == item.nextReviewAt <= now
    IN  SelectSeq(items, due)

(* Calendar days.  toDateString gives "Www Mmm DD YYYY" in local time; the  *)
(* model takes the local zone to be UTC and stays within January 1970, so   *)
(* the text is decided by the weekday and the day of the month.             *)

Weekdays == <<"Sun", "Mon", "Tue", "Wed", "Thu", "Fri", "Sat">>

\* new Date(t).toDateString(); 1 January 1970 was a Thursday
toDateString(t) ==
    LET d == t \div MS_PER_DAY
    IN  [weekday |-> Weekdays[((d + 4) % 7) + 1], month |-> "Jan",
         day |-> d + 1, year |-> 1970]

\* new Date(text).getTime(): local midnight of that day
DateGetTime(text) == (text.day - 1) * MS_PER_DAY

\* place of a weekday name in the order of strings
TextRank(weekday) ==
    CASE weekday = "Fri" -> 1 [] weekday = "Mon" -> 2 [] weekday = "Sat" -> 3
      [] weekday = "Sun" -> 4 [] weekday = "Thu" -> 5 [] weekday = "Tue" -> 6
      [] weekday = "Wed" -> 7

\* a < b as strings: Array.prototype.sort() without a comparator
TextLess(a, b) ==
    \/ TextRank(a.weekday) < TextRank(b.weekday)
    \/ (a.weekday = b.weekday /\ a.day < b.day)

RECURSIVE SortTexts(_)
\* .sort() followed by the filter that drops repeated texts
SortTexts(texts) ==
    IF texts = {} THEN <<>>
    ELSE LET first == CHOOSE x \in texts :
                          \A y \in texts \ {x} : TextLess(x, y)
         IN  <<first>> \o SortTexts(texts \ {first})

\* pending reviews counted with <
getReviewStats_StrictPending(items, now) ==
    LET today == toDateString(now)
        tomorrow == toDateString(now + MS_PER_DAY)
        reviewedToday(item) == toDateString(item.lastReviewedAt) = today
        pending(item) == item.nextReviewAt < now
        upcoming(item) == toDateString(item.nextReviewAt) = tomorrow
    IN  [todayReviews |-> Len(SelectSeq(items, reviewedToday)),
         pendingReviews |-> Len(SelectSeq(items, pending)),
         totalItems |-> Len(items),
         upcomingReviews |-> Len(SelectSeq(items, upcoming))]

getReviewStats(items, now) ==
    LET today == toDateString(now)
        tomorrow == toDateString(now + MS_PER_DAY)
        reviewedToday(item) == toDateString(item.lastReviewedAt) = today
        pending(item) == item.nextReviewAt <= now
        upcoming(item) == toDateString(item.nextReviewAt) = tomorrow
    IN  [todayReviews |-> Len(SelectSeq(items, reviewedToday)),
         pendingReviews |-> Len(SelectSeq(items, pending)),
         totalItems |-> Len(items),
         upcomingReviews |-> Len(SelectSeq(items, upcoming))]

\* Math.floor in place of Math.round
calculateProgress_Floor(items) ==
    IF Len(items) = 0 THEN 0
    ELSE LET wasReviewed(item) == item.lastReviewedAt > 0
             reviewedItems == Len(SelectSeq(items, wasReviewed))
         IN  (reviewedItems * 100) \div Len(items)

\* Math.round((reviewedItems / items.length) * 100), in exact arithmetic.  The
\* doubles of the code differ from it only at some exact ties k + 0.5 (23 of
\* 40 gives 57), which need a collection size that is a multiple of 40.
calculateProgress(items) ==
    IF Len(items) = 0 THEN 0
    ELSE LET wasReviewed(item) == item.lastReviewedAt > 0
             reviewedItems == Len(SelectSeq(items, wasReviewed))
         IN  (reviewedItems * 200 + Len(items)) \div (2 * Len(items))

RECURSIVE CountBack(_, _, _)
\* the loop of getStudyStreak, from index i (counted from 1) down to 1
CountBack(reviewDates, i, streak) ==
    IF i < 1 THEN streak
    ELSE LET diffTime == DateGetTime(reviewDates[i + 1]) - DateGetTime(reviewDates[i])
         IN  IF diffTime = MS_PER_DAY
             THEN CountBack(reviewDates, i - 1, streak + 1)
             ELSE streak

ReviewDates(items) ==
    SortTexts({ toDateString(items[i].lastReviewedAt) :
                  i \in { j \in 1..Len(items) : items[j].lastReviewedAt > 0 } })

\* a last review day of yesterday also counts
getStudyStreak_Yesterday(items, now) ==
    LET reviewDates == ReviewDates(items)
        n == Len(reviewDates)
    IN  IF n = 0 THEN 0
        ELSE IF reviewDates[n] # toDateString(now)
                  /\ reviewDates[n] # toDateString(now - MS_PER_DAY) THEN 0
        ELSE CountBack(reviewDates, n - 1, 1)

getStudyStreak(items, now) ==
    LET reviewDates == ReviewDates(items)
        n == Len(reviewDates)
    IN  IF n = 0 THEN 0
        ELSE IF reviewDates[n] # toDateString(now) THEN 0
        ELSE CountBack(reviewDates, n - 1, 1)

----------------------------------------------------------------------------
(* storageService.ts *)

Range(seq) == { seq[i] : i \in 1..Len(seq) }

IndexOfId(items, id) ==
    IF \E i \in 1..Len(items) : items[i].id = id
    THEN CHOOSE i \in 1..Len(items) :
             /\ items[i].id = id
             /\ \A j \in 1..(i - 1) : items[j].id # id
    ELSE 0

\* the findIndex / replace-or-push of saveLearningItem and addToPendingSync
Upsert(items, item) ==
    LET existingIndex == IndexOfId(items, item.id)
    IN  IF existingIndex > 0
        THEN [items EXCEPT ![existingIndex] = item]
        ELSE Append(items, item)

\* the item is queued again whatever the queue holds
addToPendingSync_AlwaysPush(pending, item) == Append(pending, item)

addToPendingSync(pending, item) == Upsert(pending, item)

saveLearningItem_AlwaysPush(items, item) == Append(items, item)

saveLearningItem(items, item) == Upsert(items, item)

clearPendingSync == <<>>

deleteLearningItem(items, itemId) ==
    LET keep(item) == item.id # itemId
    IN  SelectSeq(items, keep)

----------------------------------------------------------------------------
(* firebaseService.ts (not in demo mode) *)

\* no user signed in (currentUser: User | null)
Null == "<null>"

\* Timestamp.fromMillis and Timestamp.toMillis of Firestore
TimestampFromMillis(ms) ==
    [seconds |-> ms \div 1000, nanoseconds |-> (ms % 1000) * 1000000]

TimestampToMillis(timestamp) ==
    timestamp.seconds * 1000 + timestamp.nanoseconds \div 1000000

TimeFields == {"createdAt", "lastReviewedAt", "nextReviewAt"}

\* the document setDoc writes for an item: the item's fields, the three times
\* as Timestamps, and updatedAt
ItemDocument(item, now) ==
    [f \in DOMAIN item \cup {"updatedAt"} |->
        IF f = "updatedAt" THEN TimestampFromMillis(now)
        ELSE IF f \in TimeFields THEN TimestampFromMillis(item[f])
        ELSE item[f]]

\* the item built from a document: every field of the document, updatedAt
\* included, with the three times back in milliseconds
DocumentItem(data) ==
    [f \in DOMAIN data |->
        IF f \in TimeFields THEN TimestampToMillis(data[f]) ELSE data[f]]

RECURSIVE SetDocs(_, _, _)
SetDocs(docs, items, now) ==
    IF items = <<>> THEN docs
    ELSE SetDocs(Upsert(docs, ItemDocument(Head(items), now)), Tail(items), now)

syncLearningItemsToCloud(docs, items, user, now) ==
    IF user = Null THEN docs ELSE SetDocs(docs, items, now)

\* orderBy('createdAt', 'desc'); documents of equal createdAt by id, descending
RECURSIVE NewestFirst(_)
NewestFirst(docs) ==
    IF docs = {} THEN <<>>
    ELSE LET first == CHOOSE d \in docs : \A e \in docs :
                          \/ TimestampToMillis(d.createdAt) > TimestampToMillis(e.createdAt)
                          \/ /\ d.createdAt = e.createdAt
                             /\ d.id >= e.id
         IN  <<first>> \o NewestFirst(docs \ {first})

getLearningItemsFromCloud(docs, user) ==
    IF user = Null THEN <<>>
    ELSE LET found == NewestFirst(Range(docs))
         IN  [i \in 1..Len(found) |-> DocumentItem(found[i])]

\* localItems.forEach(item => itemMap.set(item.id, item)): a Map keeps the
\* place of a key that is set again
RECURSIVE SetAll(_, _)
SetAll(itemMap, localItems) ==
    IF localItems = <<>> THEN itemMap
    ELSE SetAll(Upsert(itemMap, Head(localItems)), Tail(localItems))

\* the cloud version also wins a tie
RECURSIVE MergeCloud_TieToCloud(_, _)
MergeCloud_TieToCloud(itemMap, cloudItems) ==
    IF cloudItems = <<>> THEN itemMap
    ELSE LET cloudItem == Head(cloudItems)
             index == IndexOfId(itemMap, cloudItem.id)
         IN  MergeCloud_TieToCloud(
                 IF \/ index = 0
                    \/ cloudItem.lastReviewedAt >= itemMap[index].lastReviewedAt
                 THEN Upsert(itemMap, cloudItem) ELSE itemMap,
                 Tail(cloudItems))

RECURSIVE MergeCloud(_, _)
MergeCloud(itemMap, cloudItems) ==
    IF cloudItems = <<>> THEN itemMap
    ELSE LET cloudItem == Head(cloudItems)
             index == IndexOfId(itemMap, cloudItem.id)
         IN  MergeCloud(
                 IF \/ index = 0
                    \/ cloudItem.lastReviewedAt > itemMap[index].lastReviewedAt
                 THEN Upsert(itemMap, cloudItem) ELSE itemMap,
                 Tail(cloudItems))

mergeItems_TieToCloud(localItems, cloudItems) ==
    MergeCloud_TieToCloud(SetAll(<<>>, localItems), cloudItems)

mergeItems(localItems, cloudItems) ==
    MergeCloud(SetAll(<<>>, localItems), cloudItems)

----------------------------------------------------------------------------
(* background/index.ts *)

\* JavaScript a || b on strings: undefined and '' are falsy
OrElse(a, b) == IF a = Undefined \/ a = "" THEN b ELSE a

\* the count updateBadgeCount shows, 0 standing for the empty badge text
BadgeCount(items, now) == Len(getTodayReviewItems(items, now))

SaveWordMessages ==
    { [word |-> "cat", text |-> Undefined, translation |-> "mao",
       wordType |-> Undefined, type |-> "word", context |-> Undefined,
       sourceUrl |-> Undefined, sourceTitle |-> Undefined],
      [word |-> Undefined, text |-> "a dog", translation |-> Undefined,
       wordType |-> Undefined, type |-> "sentence", context |-> "seen a dog",
       sourceUrl |-> "http://x", sourceTitle |-> "X"],
      [word |-> Undefined, text |-> "", translation |-> "",
       wordType |-> Undefined, type |-> "word", context |-> Undefined,
       sourceUrl |-> Undefined, sourceTitle |-> Undefined] }

generateId == nextId

handleSaveWordRequest(data) ==
    LET args == [content |-> OrElse(data.word, data.text),
                 translation |-> OrElse(data.translation, ""),
                 type |-> OrElse(data.wordType, OrElse(data.type, "word")),
                 context |-> OrElse(data.context, ""),
                 userId |-> "local"]
        created == createLearningItem(generateId, args.content, args.translation,
                                      args.type, args.context, args.userId, clock)
        withUrl == IF OrElse(data.sourceUrl, "") # ""
                   THEN [created EXCEPT !.sourceUrl = data.sourceUrl]
                   ELSE created
        learningItem == IF OrElse(data.sourceTitle, "") # ""
                        THEN [withUrl EXCEPT !.sourceTitle = data.sourceTitle]
                        ELSE withUrl
    IN  /\ handled < MaxHandled
        /\ handled' = handled + 1
        /\ nextId' = nextId + 1
        /\ call' = [op |-> "create", args |-> args, now |-> clock, result |-> created]
        /\ storage' = saveLearningItem(storage, learningItem)
        /\ pendingSync' = addToPendingSync(pendingSync, learningItem)
        /\ badge' = BadgeCount(storage', clock)
        /\ response' = [success |-> TRUE, data |-> learningItem]
        /\ UNCHANGED <<clock, tasks, cloud, currentUser, sync, deleted, popup>>

SaveWord == \E data \in SaveWordMessages : handleSaveWordRequest(data)

\* a review the bounds of the model leave room for
WithinBounds(item, result, now) ==
    /\ now \div MS_PER_DAY + NewInterval(item, result) <= MaxHorizonDays
    /\ NewEaseFactor(item, result) <= MaxEase

handleSubmitReviewRequest(itemId, result) ==
    LET index == IndexOfId(storage, itemId)
    IN  /\ handled < MaxHandled
        /\ handled' = handled + 1
        /\ IF index = 0
           THEN /\ response' = [success |-> FALSE, error |-> "Learning item not found"]
                /\ UNCHANGED <<clock, storage, pendingSync, badge, nextId,
                               call, tasks, cloud, currentUser, sync, deleted, popup>>
           ELSE LET item == storage[index]
                    updatedItem == updateItemAfterReview(item, result, clock)
                IN  /\ WithinBounds(item, result, clock)
                    /\ call' = [op |-> "review",
                                args |-> [item |-> item, result |-> result],
                                now |-> clock, result |-> updatedItem]
                    /\ storage' = saveLearningItem(storage, updatedItem)
                    /\ pendingSync' = addToPendingSync(pendingSync, updatedItem)
                    /\ badge' = BadgeCount(storage', clock)
                    /\ response' = [success |-> TRUE, data |-> updatedItem]
                    /\ UNCHANGED <<clock, nextId, tasks, cloud, currentUser,
                                   sync, deleted, popup>>

\* message.data.result is cast to ReviewResult, not checked: the qualities a
\* submitReview message can carry include values outside 0..5
MessageQualities == (0 - 1)..6

SubmitReview ==
    \E itemId \in 1..nextId, q \in MessageQualities :
        handleSubmitReviewRequest(itemId, [quality |-> q])

\* WordListPage: handleDelete -> deleteMutation -> deleteLearningItem
DeleteItem ==
    \E itemId \in 1..nextId :
        /\ handled < MaxHandled
        /\ handled' = handled + 1
        /\ IndexOfId(storage, itemId) > 0
        /\ storage' = deleteLearningItem(storage, itemId)
        /\ deleted' = deleted \cup {itemId}
        /\ UNCHANGED <<clock, pendingSync, badge, nextId, response, call,
                       tasks,
                       cloud, currentUser, sync, popup>>

\* time passes
Tick ==
    /\ clock < MS_PER_DAY + MaxClockSteps * HalfDay
    /\ clock' = clock + HalfDay
    /\ UNCHANGED <<handled, storage, pendingSync, badge, nextId, response,
                   call, tasks, cloud, currentUser, sync, deleted, popup>>

NoCall == [op |-> "none"]

\* no performFullSync in flight, none run yet
NoSync == [pc |-> "idle", runs |-> 0, after |-> {}]

\* useUIStore as created
InitialUIState ==
    [isLoading |-> FALSE, currentPage |-> "home", selectedItem |-> Null,
     reviewQueue |-> <<>>]

\* no ReviewPage is mounted; instance counts the mounts so far
Unmounted ==
    [instance |-> 0, currentIndex |-> 0, reviewedCount |-> 0,
     showAnswer |-> FALSE]

\* useAppStore as created (syncStatus and the flags of initializeApp are
\* left out: no action modelled here reads them)
InitialAppState ==
    [learningItems |-> <<>>,
     reviewQueue |-> <<>>,
     reviewStats |-> [todayReviews |-> 0, pendingReviews |-> 0,
                      totalItems |-> 0, upcomingReviews |-> 0,
                      studyStreak |-> 0, progress |-> 0]]

\* the popup has just been opened: both stores as created, no page state
PopupClosed ==
    /\ uiStore = InitialUIState
    /\ reviewPage = Unmounted
    /\ mutations = {}
    /\ appStore = InitialAppState

Init ==
    /\ handled = 0
    /\ clock = MS_PER_DAY
    /\ storage = <<>>
    /\ pendingSync = <<>>
    /\ badge = 0
    /\ nextId = 1
    /\ response = [success |-> TRUE]
    /\ call = NoCall
    /\ tasks = <<>>
    /\ cloud = <<>>
    /\ currentUser = Null
    /\ sync = NoSync
    /\ deleted = {}
    /\ PopupClosed

Next ==
    \/ SaveWord
    \/ SubmitReview
    \/ DeleteItem
    \/ Tick

Spec == Init /\ [][Next]_vars

----------------------------------------------------------------------------
(* The review engine on its own: arbitrary arguments, one call *)

ArgNows == {0, HalfDay, MS_PER_DAY}

ArgItemShapes ==
    { [id |-> 1, type |-> "word", content |-> "cat", translation |-> "mao",
       context |-> Undefined, sourceUrl |-> Undefined, sourceTitle |-> Undefined,
       createdAt |-> 0, lastReviewedAt |-> 0, nextReviewAt |-> MS_PER_DAY,
       interval |-> 1, easeFactor |-> DEFAULT_EASE_FACTOR, userId |-> "local"],
      [id |-> 2, type |-> "sentence", content |-> "a dog", translation |-> "",
       context |-> "seen a dog", sourceUrl |-> "http://x", sourceTitle |-> "X",
       createdAt |-> HalfDay, lastReviewedAt |-> HalfDay, nextReviewAt |-> 0,
       interval |-> 1, easeFactor |-> DEFAULT_EASE_FACTOR, userId |-> "u1"] }

ArgItems ==
    { [shape EXCEPT !.interval = n, !.easeFactor = e] :
        shape \in ArgItemShapes,
        n \in 0..MaxArgInterval,
        e \in MIN_EASE_FACTOR..MaxArgEase }

ReviewArguments ==
    { [op |-> "arguments", of |-> "review",
       args |-> [item |-> item, result |-> [quality |-> q]]] :
        item \in ArgItems, q \in Quality }

CreateArguments ==
    { [op |-> "arguments", of |-> "create",
       args |-> [content |-> c, translation |-> t, type |-> ty,
                 context |-> cx, userId |-> u]] :
        c \in {"", "cat"}, t \in {"", "mao"}, ty \in {"word", "sentence"},
        cx \in {Undefined, "seen a cat"}, u \in {Undefined, "u1"} }

ApplyReview ==
    /\ call.op = "arguments"
    /\ call.of = "review"
    /\ call' = [op |-> "review", args |-> call.args, now |-> clock,
                result |-> updateItemAfterReview(call.args.item,
                                                 call.args.result, clock)]
    /\ UNCHANGED <<handled, clock, storage, pendingSync, badge, nextId,
                   response, tasks, cloud, currentUser, sync, deleted, popup>>

ApplyCreate ==
    /\ call.op = "arguments"
    /\ call.of = "create"
    /\ call' = [op |-> "create", args |-> call.args, now |-> clock,
                result |-> createLearningItem(generateId, call.args.content,
                                              call.args.translation, call.args.type,
                                              call.args.context, call.args.userId,
                                              clock)]
    /\ UNCHANGED <<handled, clock, storage, pendingSync, badge, nextId,
                   response, tasks, cloud, currentUser, sync, deleted, popup>>

InitEngine ==
    /\ handled = 0
    /\ clock \in ArgNows
    /\ storage = <<>>
    /\ pendingSync = <<>>
    /\ badge = 0
    /\ nextId = 1
    /\ response = [success |-> TRUE]
    /\ call \in ReviewArguments \cup CreateArguments
    /\ tasks = <<>>
    /\ cloud = <<>>
    /\ currentUser = Null
    /\ sync = NoSync
    /\ deleted = {}
    /\ PopupClosed

NextEngine ==
    \/ ApplyReview
    \/ ApplyCreate

SpecEngine == InitEngine /\ [][NextEngine]_vars

----------------------------------------------------------------------------
(* The queries on their own: a collection, a time, one call *)

Noon(day) == day * MS_PER_DAY + HalfDay

\* an item created at noon of 1 January 1970, never reviewed (day 0) or last
\* reviewed, and failed, at noon of the given day
QueryItem(id, day) ==
    [id |-> id, type |-> "word", content |-> "cat", translation |-> "mao",
     context |-> Undefined, sourceUrl |-> Undefined, sourceTitle |-> Undefined,
     createdAt |-> Noon(0),
     lastReviewedAt |-> IF day = 0 THEN 0 ELSE Noon(day),
     nextReviewAt |-> Noon(day) + MS_PER_DAY,
     interval |-> 1,
     easeFactor |-> IF day = 0 THEN DEFAULT_EASE_FACTOR ELSE 170,
     userId |-> "local"]

SmallCollections ==
    UNION { { [i \in 1..n |-> QueryItem(i, days[i])] :
                days \in [1..n -> 0..MaxQueryDay] } : n \in 0..MaxQueryItems }

\* all but the last few items reviewed
LargeCollections ==
    { [i \in 1..LargeCollection |->
          QueryItem(i, IF i <= LargeCollection - unreviewed THEN 1 ELSE 0)] :
        unreviewed \in 0..2 }

QueryNows ==
    {0} \cup { Noon(day) : day \in 1..(MaxQueryDay + 1) }
        \cup { (MaxQueryDay + 3) * MS_PER_DAY }

ApplyDue ==
    /\ call.op = "none"
    /\ call' = [op |-> "due", args |-> [items |-> storage], now |-> clock,
                result |-> getTodayReviewItems(storage, clock)]
    /\ UNCHANGED <<handled, clock, storage, pendingSync, badge, nextId,
                   response, tasks, cloud, currentUser, sync, deleted, popup>>

ApplyStats ==
    /\ call.op = "none"
    /\ call' = [op |-> "stats", args |-> [items |-> storage], now |-> clock,
                result |-> getReviewStats(storage, clock)]
    /\ UNCHANGED <<handled, clock, storage, pendingSync, badge, nextId,
                   response, tasks, cloud, currentUser, sync, deleted, popup>>

ApplyProgress ==
    /\ call.op = "none"
    /\ call' = [op |-> "progress", args |-> [items |-> storage], now |-> clock,
                result |-> calculateProgress(storage)]
    /\ UNCHANGED <<handled, clock, storage, pendingSync, badge, nextId,
                   response, tasks, cloud, currentUser, sync, deleted, popup>>

ApplyStreak ==
    /\ call.op = "none"
    /\ call' = [op |-> "streak", args |-> [items |-> storage], now |-> clock,
                result |-> getStudyStreak(storage, clock)]
    /\ UNCHANGED <<handled, clock, storage, pendingSync, badge, nextId,
                   response, tasks, cloud, currentUser, sync, deleted, popup>>

InitQuery ==
    /\ handled = 0
    /\ \/ storage \in SmallCollections /\ clock \in QueryNows
       \/ storage \in LargeCollections /\ clock = Noon(1)
    /\ pendingSync = <<>>
    /\ badge = 0
    /\ nextId = 1
    /\ response = [success |-> TRUE]
    /\ call = NoCall
    /\ tasks = <<>>
    /\ cloud = <<>>
    /\ currentUser = Null
    /\ sync = NoSync
    /\ deleted = {}
    /\ PopupClosed

NextQuery ==
    \/ ApplyDue
    \/ ApplyStats
    \/ ApplyProgress
    \/ ApplyStreak

SpecQuery == InitQuery /\ [][NextQuery]_vars

----------------------------------------------------------------------------
(* submitReview handlers in flight at once.  A handler runs without          *)
(* interruption up to its next await of chrome.storage; between two awaits   *)
(* any other handler may run.                                                *)

TaskIds == 1..MaxTasks

\* the ratings of the submitReview messages in flight
TaskQualities == {2, 4}

Idle == [pc |-> "idle", saved |-> 0]

\* two words saved at the start of the second day (handleSaveWordRequest of
\* a message that carries a word and a translation only)
SavedWord(id) ==
    createLearningItem(id, "cat", "mao", "word", "", "local", MS_PER_DAY)

\* how many chrome.storage.local.set calls of saveLearningItem have finished
SavesFinished == Cardinality({ t \in TaskIds : tasks[t].saved > 0 })

\* handleSubmitReviewRequest up to its call of saveLearningItem: the items
\* are read, the item is looked up and updateItemAfterReview is applied
SubmitRead ==
    \E t \in TaskIds, itemId \in 1..nextId, q \in TaskQualities :
        LET result == [quality |-> q]
            items == storage
            index == IndexOfId(items, itemId)
        IN  /\ tasks[t].pc = "idle"
            /\ IF index = 0
               THEN /\ response' = [success |-> FALSE,
                                    error |-> "Learning item not found"]
                    /\ tasks' = [tasks EXCEPT ![t] =
                                   [pc |-> "done", itemId |-> itemId,
                                    result |-> result, saved |-> 0]]
                    /\ UNCHANGED call
               ELSE LET item == items[index]
                        updatedItem == updateItemAfterReview(item, result, clock)
                    IN  /\ WithinBounds(item, result, clock)
                        /\ call' = [op |-> "review",
                                    args |-> [item |-> item, result |-> result],
                                    now |-> clock, result |-> updatedItem]
                        /\ tasks' = [tasks EXCEPT ![t] =
                                       [pc |-> "save", itemId |-> itemId,
                                        result |-> result, saved |-> 0,
                                        updatedItem |-> updatedItem]]
                        /\ UNCHANGED response
            /\ UNCHANGED <<handled, clock, storage, pendingSync, badge, nextId,
                           cloud, currentUser, sync, deleted, popup>>

\* saveLearningItem: the items are read again and the item is put in the copy
SaveRead ==
    \E t \in TaskIds :
        /\ tasks[t].pc = "save"
        /\ tasks' = [tasks EXCEPT ![t] =
                       [pc |-> "set", itemId |-> @.itemId, result |-> @.result,
                        saved |-> 0, updatedItem |-> @.updatedItem,
                        items |-> saveLearningItem(storage, @.updatedItem)]]
        /\ UNCHANGED <<handled, clock, storage, pendingSync, badge, nextId,
                       response, call, cloud, currentUser, sync, deleted, popup>>

\* saveLearningItem: chrome.storage.local.set of the copy
SaveWrite ==
    \E t \in TaskIds :
        /\ tasks[t].pc = "set"
        /\ storage' = tasks[t].items
        /\ tasks' = [tasks EXCEPT ![t] =
                       [pc |-> "pending", itemId |-> @.itemId,
                        result |-> @.result, saved |-> SavesFinished + 1,
                        updatedItem |-> @.updatedItem]]
        /\ UNCHANGED <<handled, clock, pendingSync, badge, nextId, response,
                       call, cloud, currentUser, sync, deleted, popup>>

\* addToPendingSync: the queue is read and the item is put in the copy
PendingRead ==
    \E t \in TaskIds :
        /\ tasks[t].pc = "pending"
        /\ tasks' = [tasks EXCEPT ![t] =
                       [pc |-> "pendingSet", itemId |-> @.itemId,
                        result |-> @.result, saved |-> @.saved,
                        updatedItem |-> @.updatedItem,
                        pendingItems |-> addToPendingSync(pendingSync,
                                                          @.updatedItem)]]
        /\ UNCHANGED <<handled, clock, storage, pendingSync, badge, nextId,
                       response, call, cloud, currentUser, sync, deleted, popup>>

\* addToPendingSync: chrome.storage.local.set of the copy
PendingWrite ==
    \E t \in TaskIds :
        /\ tasks[t].pc = "pendingSet"
        /\ pendingSync' = tasks[t].pendingItems
        /\ tasks' = [tasks EXCEPT ![t] =
                       [pc |-> "badge", itemId |-> @.itemId,
                        result |-> @.result, saved |-> @.saved,
                        updatedItem |-> @.updatedItem]]
        /\ UNCHANGED <<handled, clock, storage, badge, nextId, response, call,
                       cloud, currentUser, sync, deleted, popup>>

\* updateBadgeCount and sendResponse
Respond ==
    \E t \in TaskIds :
        /\ tasks[t].pc = "badge"
        /\ badge' = BadgeCount(storage, clock)
        /\ response' = [success |-> TRUE, data |-> tasks[t].updatedItem]
        /\ tasks' = [tasks EXCEPT ![t] =
                       [pc |-> "done", itemId |-> @.itemId,
                        result |-> @.result, saved |-> @.saved,
                        updatedItem |-> @.updatedItem]]
        /\ UNCHANGED <<handled, clock, storage, pendingSync, nextId, call,
                       cloud, currentUser, sync, deleted, popup>>

InitRace ==
    /\ handled = 0
    /\ clock = MS_PER_DAY + HalfDay
    /\ storage = <<SavedWord(1), SavedWord(2)>>
    /\ pendingSync = <<SavedWord(1), SavedWord(2)>>
    /\ badge = 0
    /\ nextId = 3
    /\ response = [success |-> TRUE]
    /\ call = NoCall
    /\ tasks = [t \in TaskIds |-> Idle]
    /\ cloud = <<>>
    /\ currentUser = Null
    /\ sync = NoSync
    /\ deleted = {}
    /\ PopupClosed

NextRace ==
    \/ SubmitRead
    \/ SaveRead
    \/ SaveWrite
    \/ PendingRead
    \/ PendingWrite
    \/ Respond

SpecRace == InitRace /\ [][NextRace]_vars

----------------------------------------------------------------------------
(* Full sync.  performFullSync runs without interruption up to its next       *)
(* await; between two awaits a whole handler (a save, a review, a deletion)   *)
(* may run.  One sync is in flight at a time.                                 *)

\* item 1 as reviewed on another device of the same user
ReviewedElsewhere ==
    updateItemAfterReview(SavedWord(1), [quality |-> 5], MS_PER_DAY + HalfDay)

\* an item created on another device of the same user
CreatedElsewhere ==
    createLearningItem(7, "dog", "gou", "word", "", "local", MS_PER_DAY + HalfDay)

\* handleSaveWordRequest of a message that carries a word and a translation
SyncSaveWord ==
    \E data \in SaveWordMessages :
        /\ handled < MaxSyncHandled
        /\ data.word = "cat"
        /\ handleSaveWordRequest(data)

SyncReview ==
    \E itemId \in 1..nextId, q \in TaskQualities :
        /\ handled < MaxSyncHandled
        /\ handleSubmitReviewRequest(itemId, [quality |-> q])

\* WordListPage: handleDelete -> deleteMutation -> deleteLearningItem
SyncDelete ==
    /\ handled < MaxSyncHandled
    /\ DeleteItem

\* another device of the user uploads what it has queued
OtherDevice ==
    /\ currentUser # Null
    /\ cloud' = syncLearningItemsToCloud(
                     cloud, <<ReviewedElsewhere, CreatedElsewhere>>,
                     currentUser, clock)
    /\ cloud' # cloud
    /\ UNCHANGED <<handled, clock, storage, pendingSync, badge, nextId,
                   response, call, tasks, currentUser, sync, deleted, popup>>

\* handleSyncDataRequest up to its call of performFullSync
SyncRequest ==
    /\ sync.pc = "idle"
    /\ sync.runs < MaxSyncs
    /\ IF currentUser = Null
       THEN /\ response' = [success |-> FALSE, error |-> "Firebase not connected"]
            /\ UNCHANGED sync
       ELSE /\ sync' = [pc |-> "pending", runs |-> sync.runs + 1,
                        after |-> deleted, by |-> "request"]
            /\ UNCHANGED response
    /\ UNCHANGED <<handled, clock, storage, pendingSync, badge, nextId, call,
                   tasks, cloud, currentUser, deleted, popup>>

\* performAutoSync up to its call of performFullSync
AutoSync ==
    /\ sync.pc = "idle"
    /\ sync.runs < MaxSyncs
    /\ currentUser # Null
    /\ Len(pendingSync) # 0
    /\ sync' = [pc |-> "pending", runs |-> sync.runs + 1,
                after |-> deleted, by |-> "alarm"]
    /\ UNCHANGED <<handled, clock, storage, pendingSync, badge, nextId,
                   response, call, tasks, cloud, currentUser, deleted, popup>>

\* performFullSync: const pendingItems = await getPendingSyncItems()
SyncReadPending ==
    /\ sync.pc = "pending"
    /\ sync' = [pc |-> IF Len(pendingSync) > 0 THEN "upload" ELSE "download",
                runs |-> sync.runs, after |-> sync.after, by |-> sync.by,
                pendingItems |-> pendingSync]
    /\ UNCHANGED <<handled, clock, storage, pendingSync, badge, nextId,
                   response, call, tasks, cloud, currentUser, deleted, popup>>

\* performFullSync: await syncLearningItemsToCloud(pendingItems)
SyncUpload ==
    /\ sync.pc = "upload"
    /\ cloud' = syncLearningItemsToCloud(cloud, sync.pendingItems, currentUser,
                                         clock)
    /\ sync' = [pc |-> "clear", runs |-> sync.runs, after |-> sync.after,
                by |-> sync.by]
    /\ UNCHANGED <<handled, clock, storage, pendingSync, badge, nextId,
                   response, call, tasks, currentUser, deleted, popup>>

\* performFullSync: await clearPendingSync()
SyncClear ==
    /\ sync.pc = "clear"
    /\ pendingSync' = clearPendingSync
    /\ sync' = [pc |-> "download", runs |-> sync.runs, after |-> sync.after,
                by |-> sync.by]
    /\ UNCHANGED <<handled, clock, storage, badge, nextId, response, call,
                   tasks, cloud, currentUser, deleted, popup>>

\* performFullSync: const cloudItems = await getLearningItemsFromCloud()
SyncDownload ==
    /\ sync.pc = "download"
    /\ sync' = [pc |-> "local", runs |-> sync.runs, after |-> sync.after,
                by |-> sync.by,
                cloudItems |-> getLearningItemsFromCloud(cloud, currentUser)]
    /\ UNCHANGED <<handled, clock, storage, pendingSync, badge, nextId,
                   response, call, tasks, cloud, currentUser, deleted, popup>>

\* performFullSync: const localItems = await getLearningItems(), mergeItems
SyncMerge ==
    /\ sync.pc = "local"
    /\ LET localItems == storage
           mergedItems == mergeItems(localItems, sync.cloudItems)
       IN  /\ call' = [op |-> "merge",
                       args |-> [localItems |-> localItems,
                                 cloudItems |-> sync.cloudItems],
                       now |-> clock, result |-> mergedItems]
           /\ sync' = [pc |-> "write", runs |-> sync.runs, after |-> sync.after,
                       by |-> sync.by, localItems |-> localItems,
                       mergedItems |-> mergedItems]
    /\ UNCHANGED <<handled, clock, storage, pendingSync, badge, nextId,
                   response, tasks, cloud, currentUser, deleted, popup>>

\* saveLearningItems: chrome.storage.local.set of the merged items
SyncWrite ==
    /\ sync.pc = "write"
    /\ storage' = sync.mergedItems
    /\ sync' = [pc |-> "queue", runs |-> sync.runs, after |-> sync.after,
                by |-> sync.by, mergedItems |-> sync.mergedItems, next |-> 1]
    /\ UNCHANGED <<handled, clock, pendingSync, badge, nextId, response, call,
                   tasks, cloud, currentUser, deleted, popup>>

\* saveLearningItems: for (const item of items) await addToPendingSync(item)
SyncQueue ==
    /\ sync.pc = "queue"
    /\ sync.next <= Len(sync.mergedItems)
    /\ pendingSync' = addToPendingSync(pendingSync, sync.mergedItems[sync.next])
    /\ sync' = [sync EXCEPT !.next = @ + 1]
    /\ UNCHANGED <<handled, clock, storage, badge, nextId, response, call,
                   tasks, cloud, currentUser, deleted, popup>>

\* performFullSync returns { success: true, syncedItems }; the handler of a
\* request answers with it
SyncReturn ==
    /\ sync.pc = "queue"
    /\ sync.next > Len(sync.mergedItems)
    /\ response' = IF sync.by = "request"
                   THEN [success |-> TRUE,
                         data |-> [success |-> TRUE,
                                   syncedItems |-> Len(sync.mergedItems)]]
                   ELSE response
    /\ sync' = [pc |-> "idle", runs |-> sync.runs, after |-> sync.after]
    /\ UNCHANGED <<handled, clock, storage, pendingSync, badge, nextId, call,
                   tasks, cloud, currentUser, deleted, popup>>

InitSync ==
    /\ handled = 0
    /\ clock = MS_PER_DAY + HalfDay
    /\ storage = <<SavedWord(1), SavedWord(2)>>
    /\ pendingSync = <<SavedWord(1), SavedWord(2)>>
    /\ badge = 0
    /\ nextId = 3
    /\ response = [success |-> TRUE]
    /\ call = NoCall
    /\ tasks = <<>>
    /\ cloud = <<>>
    /\ currentUser \in {Null, "u1"}
    /\ sync = NoSync
    /\ deleted = {}
    /\ PopupClosed

NextSync ==
    \/ SyncSaveWord
    \/ SyncReview
    \/ SyncDelete
    \/ OtherDevice
    \/ SyncRequest
    \/ AutoSync
    \/ SyncReadPending
    \/ SyncUpload
    \/ SyncClear
    \/ SyncDownload
    \/ SyncMerge
    \/ SyncWrite
    \/ SyncQueue
    \/ SyncReturn

SpecSync == InitSync /\ [][NextSync]_vars

-----------------------------------------------------------------------------
(* A review session in the popup: HomePage starts it, ReviewPage walks the  *)
(* queue.  A rating is saved through updateItemMutation; what follows the   *)
(* await in handleReviewResult runs when the save settles, with the         *)
(* currentIndex and reviewQueue of the render in which the button was       *)
(* pressed, while the state setters apply to the state at that later time.  *)

\* the rating buttons pressed: Hard and Good, of Forgot, Hard, Good, Easy
SessionQualities == {2, 4}

\* ReviewPage is on screen
Mounted == uiStore.currentPage = "review"

\* reviewQueue[currentIndex] is an item and not undefined
HasCurrentItem == reviewPage.currentIndex < Len(uiStore.reviewQueue)

\* const currentItem = reviewQueue[currentIndex]
CurrentItem == uiStore.reviewQueue[reviewPage.currentIndex + 1]

\* updateItemMutation.isPending of the mounted page
IsPending == \E m \in mutations : m.instance = reviewPage.instance

\* the page switch unmounts ReviewPage: its useState values are gone
UnmountedPage == [Unmounted EXCEPT !.instance = reviewPage.instance]

\* HomePage: handleStartReview; learningItems is the result of the
\* getLearningItems query, taken here to be up to date
handleStartReview ==
    /\ uiStore.currentPage = "home"
    /\ reviewPage.instance < MaxSessions
    /\ uiStore' = [uiStore EXCEPT
                       !.reviewQueue = getTodayReviewItems(storage, clock),
                       !.currentPage = "review"]
    /\ reviewPage' = [instance |-> reviewPage.instance + 1,
                      currentIndex |-> 0, reviewedCount |-> 0,
                      showAnswer |-> FALSE]
    /\ UNCHANGED <<handled, clock, storage, pendingSync, badge, nextId,
                   response, call, tasks, cloud, currentUser, sync, deleted,
                   mutations, appStore>>

\* the Show Answer button
ShowAnswer ==
    /\ Mounted
    /\ HasCurrentItem
    /\ ~reviewPage.showAnswer
    /\ reviewPage' = [reviewPage EXCEPT !.showAnswer = TRUE]
    /\ UNCHANGED <<handled, clock, storage, pendingSync, badge, nextId,
                   response, call, tasks, cloud, currentUser, sync, deleted,
                   uiStore, mutations, appStore>>

\* a rating button: handleReviewResult up to its await.  mutationFn has
\* applied updateItemAfterReview and waits in saveLearningItem.
handleReviewResult ==
    \E quality \in SessionQualities :
        LET item == CurrentItem
            result == [quality |-> quality]
            updatedItem == updateItemAfterReview(item, result, clock)
        IN  /\ Mounted
            /\ HasCurrentItem
            /\ reviewPage.showAnswer
            /\ ~IsPending
            /\ WithinBounds(item, result, clock)
            /\ mutations' = mutations \cup
                   {[instance |-> reviewPage.instance,
                     updatedItem |-> updatedItem,
                     currentIndex |-> reviewPage.currentIndex,
                     length |-> Len(uiStore.reviewQueue)]}
            /\ UNCHANGED <<handled, clock, storage, pendingSync, badge,
                           nextId, response, call, tasks, cloud, currentUser,
                           sync, deleted, uiStore, reviewPage, appStore>>

\* handleReviewComplete
handleReviewComplete ==
    /\ uiStore' = [uiStore EXCEPT !.reviewQueue = <<>>,
                                  !.currentPage = "home"]
    /\ reviewPage' = UnmountedPage

\* the index always moves on, also from the last item
MoveOn_NoLastCheck(page, currentIndex, length) ==
    /\ reviewPage' = [page EXCEPT !.currentIndex = page.currentIndex + 1,
                                  !.showAnswer = FALSE]
    /\ UNCHANGED uiStore

\* if (currentIndex < reviewQueue.length - 1) { setCurrentIndex(prev => prev
\* + 1); setShowAnswer(false) } else handleReviewComplete(), where
\* currentIndex and length are those of the render the handler belongs to and
\* page is the state the setters apply to
MoveOn(page, currentIndex, length) ==
    IF currentIndex < length - 1
    THEN /\ reviewPage' = [page EXCEPT !.currentIndex = page.currentIndex + 1,
                                       !.showAnswer = FALSE]
         /\ UNCHANGED uiStore
    ELSE handleReviewComplete

\* the save of a rating succeeds and handleReviewResult goes on after its
\* await; the setters of a page no longer mounted change nothing
SaveSucceeds ==
    \E m \in mutations :
        /\ mutations' = mutations \ {m}
        /\ handled' = handled + 1
        /\ storage' = saveLearningItem(storage, m.updatedItem)
        /\ pendingSync' = addToPendingSync(pendingSync, m.updatedItem)
        /\ IF Mounted /\ m.instance = reviewPage.instance
           THEN MoveOn([reviewPage EXCEPT
                            !.reviewedCount = reviewPage.reviewedCount + 1],
                       m.currentIndex, m.length)
           ELSE IF m.currentIndex < m.length - 1
                THEN UNCHANGED <<uiStore, reviewPage>>
                ELSE handleReviewComplete
        /\ UNCHANGED <<clock, badge, nextId, response, call, tasks, cloud,
                       currentUser, sync, deleted, appStore>>

\* chrome.storage.local.set rejects: saveLearningItem throws and the catch
\* of handleReviewResult logs the error
SaveFails ==
    \E m \in mutations :
        /\ mutations' = mutations \ {m}
        /\ UNCHANGED <<handled, clock, storage, pendingSync, badge, nextId,
                       response, call, tasks, cloud, currentUser, sync,
                       deleted, uiStore, reviewPage, appStore>>

\* the Skip button, shown while the answer is hidden
handleSkip ==
    /\ Mounted
    /\ HasCurrentItem
    /\ ~reviewPage.showAnswer
    /\ MoveOn(reviewPage, reviewPage.currentIndex, Len(uiStore.reviewQueue))
    /\ UNCHANGED <<handled, clock, storage, pendingSync, badge, nextId,
                   response, call, tasks, cloud, currentUser, sync, deleted,
                   mutations, appStore>>

\* the back arrow, or Back to Home of the empty page
BackToHome ==
    /\ Mounted
    /\ uiStore' = [uiStore EXCEPT !.currentPage = "home"]
    /\ reviewPage' = UnmountedPage
    /\ UNCHANGED <<handled, clock, storage, pendingSync, badge, nextId,
                   response, call, tasks, cloud, currentUser, sync, deleted,
                   mutations, appStore>>

\* between one and MaxSessionItems words, saved a day and a half ago, are due
InitSession ==
    /\ handled = 0
    /\ clock = 2 * MS_PER_DAY + HalfDay
    /\ \E n \in 1..MaxSessionItems :
           /\ storage = [i \in 1..n |-> SavedWord(i)]
           /\ pendingSync = storage
           /\ nextId = n + 1
    /\ badge = Len(storage)
    /\ response = [success |-> TRUE]
    /\ call = NoCall
    /\ tasks = <<>>
    /\ cloud = <<>>
    /\ currentUser = Null
    /\ sync = NoSync
    /\ deleted = {}
    /\ PopupClosed

NextSession ==
    \/ handleStartReview
    \/ ShowAnswer
    \/ handleReviewResult
    \/ SaveSucceeds
    \/ SaveFails
    \/ handleSkip
    \/ BackToHome

SpecSession == InitSession /\ [][NextSession]_vars

-----------------------------------------------------------------------------
(* stores/appStore.ts: the actions on learningItems.  Each of them sets     *)
(* learningItems, which runs the subscription (refreshReviewQueue, then     *)
(* refreshStats), and then calls refreshReviewQueue and refreshStats        *)
(* itself; the values left in the store are those of the last two calls.    *)
(* getTodayReviewItems and getReviewStats each read Date.now() on their     *)
(* own, so the second may read a later millisecond than the first.          *)

\* the due time of an item given to the store, in milliseconds after the
\* start of the third day
StoreOffsets == {0, 1, MS_PER_DAY}

StoreItem(id, offset) ==
    createLearningItem(id, "cat", "mao", "word", "", "local",
                       MS_PER_DAY + offset)

\* the items given to addLearningItem and updateLearningItem
StoreItems == { StoreItem(id, offset) : id \in 1..2, offset \in StoreOffsets }

\* what getLearningItems finds in chrome.storage.local
StoredCollections ==
    { <<>>, <<StoreItem(1, 1)>>, <<StoreItem(1, 0), StoreItem(2, 1)>> }

\* refreshReviewQueue
refreshReviewQueue(learningItems, now) ==
    getTodayReviewItems(learningItems, now)

\* refreshStats: getReviewStats, then progress and studyStreak computed in
\* place
refreshStats(learningItems, now) ==
    LET stats == getReviewStats(learningItems, now)
        wasReviewed(item) == item.lastReviewedAt > 0
        reviewedItems == Len(SelectSeq(learningItems, wasReviewed))
        progress ==
            IF Len(learningItems) > 0
            THEN MathRound((reviewedItems * 10000) \div Len(learningItems))
            ELSE 0
        reviewDates == ReviewDates(learningItems)
        n == Len(reviewDates)
        studyStreak ==
            IF n > 0 /\ reviewDates[n] = toDateString(now)
            THEN CountBack(reviewDates, n - 1, 1)
            ELSE 0
    IN  [todayReviews |-> stats.todayReviews,
         pendingReviews |-> stats.pendingReviews,
         totalItems |-> stats.totalItems,
         upcomingReviews |-> stats.upcomingReviews,
         studyStreak |-> studyStreak,
         progress |-> progress]

\* set({ learningItems: newItems }) and the refreshes that follow it; the
\* clock may move on by up to MaxTick milliseconds between the two reads
SetLearningItems(newItems) ==
    \E tick \in 0..MaxTick :
        /\ handled < MaxHandled
        /\ handled' = handled + 1
        /\ clock' = clock + tick
        /\ appStore' =
               [learningItems |-> newItems,
                reviewQueue |-> refreshReviewQueue(newItems, clock),
                reviewStats |-> refreshStats(newItems, clock')]

\* loadLearningItems up to its await: getLearningItems has read the storage
LoadRead ==
    /\ handled + Len(tasks) < MaxHandled
    /\ tasks' = Append(tasks, storage)
    /\ UNCHANGED <<handled, clock, storage, pendingSync, badge, nextId,
                   response, call, cloud, currentUser, sync, deleted,
                   uiStore, reviewPage, mutations, appStore>>

\* loadLearningItems after its await
loadLearningItems ==
    /\ tasks # <<>>
    /\ SetLearningItems(Head(tasks))
    /\ tasks' = Tail(tasks)
    /\ UNCHANGED <<storage, pendingSync, badge, nextId, response, call,
                   cloud, currentUser, sync, deleted, uiStore, reviewPage,
                   mutations>>

addLearningItem ==
    \E item \in StoreItems :
        /\ Len(appStore.learningItems) < MaxQueryItems
        /\ SetLearningItems(Append(appStore.learningItems, item))
        /\ UNCHANGED <<storage, pendingSync, badge, nextId, response, call,
                       tasks, cloud, currentUser, sync, deleted, uiStore,
                       reviewPage, mutations>>

updateLearningItem ==
    \E updatedItem \in StoreItems :
        LET learningItems == appStore.learningItems
            newItems ==
                [i \in 1..Len(learningItems) |->
                    IF learningItems[i].id = updatedItem.id
                    THEN updatedItem ELSE learningItems[i]]
        IN  /\ SetLearningItems(newItems)
            /\ UNCHANGED <<storage, pendingSync, badge, nextId, response,
                           call, tasks, cloud, currentUser, sync, deleted,
                           uiStore, reviewPage, mutations>>

removeLearningItem ==
    \E itemId \in 1..2 :
        LET keep(item) == item.id # itemId
        IN  /\ SetLearningItems(SelectSeq(appStore.learningItems, keep))
            /\ UNCHANGED <<storage, pendingSync, badge, nextId, response,
                           call, tasks, cloud, currentUser, sync, deleted,
                           uiStore, reviewPage, mutations>>

\* the popup is opened at the start of the third day
InitStore ==
    /\ handled = 0
    /\ clock = 2 * MS_PER_DAY
    /\ storage \in StoredCollections
    /\ pendingSync = storage
    /\ badge = 0
    /\ nextId = 3
    /\ response = [success |-> TRUE]
    /\ call = NoCall
    /\ tasks = <<>>
    /\ cloud = <<>>
    /\ currentUser = Null
    /\ sync = NoSync
    /\ deleted = {}
    /\ PopupClosed

NextStore ==
    \/ LoadRead
    \/ loadLearningItems
    \/ addLearningItem
    \/ updateLearningItem
    \/ removeLearningItem

SpecStore == InitStore /\ [][NextStore]_vars

----------------------------------------------------------------------------
(* Properties *)


\* every item the program holds: stored, queued for sync, or just returned
HeldItems ==
    Range(storage) \cup Range(pendingSync)
        \cup (IF call.op \in {"review", "create"} THEN {call.result} ELSE {})

Reviewed == call.op = "review"
Created == call.op = "create"

\* C1: along every sequence of reviews of a created item, with any qualities
\* in 0..5, easeFactor is at least 1.3 in every item the program holds.
C1_EaseFloor ==
    \A item \in HeldItems : item.easeFactor >= 130

\* the floor acted: the adjustment led below 1.3 and the stored result is 1.3
C1_Witness ==
    /\ Reviewed
    /\ call.args.result.quality = 0
    /\ call.args.item.easeFactor - 80 < 130
    /\ call.result.easeFactor = 130
    /\ call.result \in Range(storage)

\* C2 as stated: a passing review of an item whose interval is neither 0 nor 1
\* yields round(interval x the ease factor after this review's adjustment).
C2_Original ==
    (Reviewed /\ call.args.result.quality >= 3 /\ call.args.item.interval \notin {0, 1})
        => call.result.interval
             = MathRound(call.args.item.interval * call.result.easeFactor)

\* C2 amended: a passing review of an item whose interval is neither 0 nor 1
\* yields round(interval x the ease factor stored on the item before the review).
C2_IntervalUsesStoredEase ==
    (Reviewed /\ call.args.result.quality >= 3 /\ call.args.item.interval \notin {0, 1})
        => call.result.interval
             = (call.args.item.interval * call.args.item.easeFactor + 50) \div 100

\* interval 6, ease 2.6, quality 3: the result is round(6 x 2.6) = 16, ease 2.46
C2_Witness ==
    /\ Reviewed
    /\ call.args.result.quality = 3
    /\ call.args.item.interval = 6
    /\ call.args.item.easeFactor = 260
    /\ call.result.interval = 16
    /\ call.result.easeFactor = 246

\* C3: a review with quality below 3 yields interval 1, whatever the item's
\* interval and ease factor.
C3_FailureReset ==
    (Reviewed /\ call.args.result.quality < 3) => call.result.interval = 1

C3_Witness ==
    /\ Reviewed
    /\ call.args.result.quality = 2
    /\ call.args.item.interval > 1
    /\ call.result.interval = 1

\* C4: a passing review (quality 3, 4 or 5) of an item whose interval is 1
\* yields interval 6, whatever the ease factor.
C4_SecondStep ==
    (Reviewed /\ call.args.result.quality >= 3 /\ call.args.item.interval = 1)
        => call.result.interval = 6

C4_Witness ==
    /\ Reviewed
    /\ call.args.result.quality = 5
    /\ call.args.item.interval = 1
    /\ call.args.item.easeFactor = 250
    /\ call.result.interval = 6

QualityChange ==
    [q \in Quality |->
        CASE q = 5 -> 10 [] q = 4 -> 0 [] q = 3 -> 0 - 14
          [] q = 2 -> 0 - 32 [] q = 1 -> 0 - 54 [] q = 0 -> 0 - 80]

C6_IntervalPositive ==
    /\ \A item \in HeldItems : item.interval >= 1
    /\ Reviewed => call.args.item.interval # 0

\* a failed review of a stored item with a longer interval
C6_Witness ==
    /\ Reviewed
    /\ call.args.result.quality < 3
    /\ call.args.item.interval > 1
    /\ call.result \in Range(storage)

C7_Derived ==
    \A item \in HeldItems :
        /\ item.nextReviewAt >= 0
        /\ item.nextReviewAt
             = (IF item.lastReviewedAt > 0 THEN item.lastReviewedAt ELSE item.createdAt)
                 + item.interval * 86400000

C7_OnlyEngineWrites ==
    \A i \in 1..Len(storage), j \in 1..Len(storage') :
        (storage[i].id = storage'[j].id
            /\ storage[i].nextReviewAt # storage'[j].nextReviewAt)
        => /\ call'.op = "review"
           /\ call'.result = storage'[j]
           /\ call'.now = clock
           /\ storage'[j].lastReviewedAt = clock

\* C7: in every item state nextReviewAt = T + interval x 86,400,000 >= 0, T
\* being lastReviewedAt (the time of the review) for a reviewed item and
\* createdAt for a never reviewed one; only a review rewrites nextReviewAt.
C7_ScheduleDerivation ==
    []C7_Derived /\ [][C7_OnlyEngineWrites]_vars

\* a stored item reviewed later than it was created, with a longer interval
C7_Witness ==
    \E item \in Range(storage) :
        /\ item.lastReviewedAt > item.createdAt
        /\ item.interval > 1
        /\ item.nextReviewAt = item.lastReviewedAt + item.interval * 86400000

\* C8: a review changes interval, easeFactor, lastReviewedAt and nextReviewAt
\* only; every other field of the result equals the input's.
C8_ReviewFrame ==
    Reviewed =>
        /\ DOMAIN call.result = DOMAIN call.args.item
        /\ \A f \in DOMAIN call.args.item
                \ {"interval", "easeFactor", "lastReviewedAt", "nextReviewAt"} :
              call.result[f] = call.args.item[f]

\* a review that changed all four scheduling fields
C8_Witness ==
    /\ Reviewed
    /\ call.result.interval # call.args.item.interval
    /\ call.result.easeFactor # call.args.item.easeFactor
    /\ call.result.lastReviewedAt # call.args.item.lastReviewedAt
    /\ call.result.nextReviewAt # call.args.item.nextReviewAt
    /\ call.args.item.createdAt # call.now

\* C9: an item created at time now has createdAt = now, lastReviewedAt = 0,
\* interval = 1, easeFactor = 2.5, nextReviewAt = now + 86,400,000, the given
\* content, translation, type and context, and the given userId or 'local'.
C9_InitialItem ==
    Created =>
        /\ call.result.createdAt = call.now
        /\ call.result.lastReviewedAt = 0
        /\ call.result.interval = 1
        /\ call.result.easeFactor = 250
        /\ call.result.nextReviewAt = call.now + 86400000
        /\ call.result.content = call.args.content
        /\ call.result.translation = call.args.translation
        /\ call.result.type = call.args.type
        /\ call.result.context = call.args.context
        /\ call.result.userId
             = (IF call.args.userId = Undefined THEN "local" ELSE call.args.userId)

\* an item created with the userId left out, at a time other than 0
C9_Witness ==
    /\ Created
    /\ call.args.userId = Undefined
    /\ call.result.userId = "local"
    /\ call.now > 0
    /\ call.args.content = "cat"

IsDue(item) ==
    \E i \in 1..Len(getTodayReviewItems(storage, clock)) :
        getTodayReviewItems(storage, clock)[i] = item

\* C10: a stored item that was never reviewed is returned by the due query
\* exactly when the clock has reached its createdAt + 86,400,000.
C10_GracePeriod ==
    \A item \in Range(storage) :
        item.lastReviewedAt = 0
            => (IsDue(item) <=> clock >= item.createdAt + 86400000)

\* a never reviewed item beside one still in its grace period: one due, one not
C10_Witness ==
    \E a, b \in Range(storage) :
        /\ a.lastReviewedAt = 0 /\ b.lastReviewedAt = 0
        /\ clock = a.createdAt + 86400000
        /\ clock < b.createdAt + 86400000
        /\ IsDue(a) /\ ~IsDue(b)

\* C11: a review with a quality outside 0..5 is rejected: no updated item is
\* computed from it and the submitReview request answers with a failure.
C11_QualityValidated ==
    Reviewed =>
        \/ call.args.result.quality \in 0..5
        \/ (response.success = FALSE /\ call.result \notin Range(storage))

\* C12: an item is never created with empty content, so no stored or queued
\* item has empty content.
C12_ContentValidated ==
    /\ Created => call.args.content # ""
    /\ \A item \in HeldItems : item.content # ""

\* C15: after any sequence of reviews easeFactor lies within 1.3 .. 2.5.
C15_DocumentedEaseRange ==
    \A item \in HeldItems : item.easeFactor >= 130 /\ item.easeFactor <= 250

\* indices of the items of a collection that are due at a time
DueIndices(items, now) == { i \in 1..Len(items) : items[i].nextReviewAt <= now }

\* C13: the due query returns exactly the items with nextReviewAt <= now, in
\* their order, none added, dropped or altered, and leaves the collection as it
\* was; empty for an empty collection, empty at time 0, the whole collection
\* at a time past every nextReviewAt.
C13_DueQuery ==
    call.op = "due" =>
        LET items == call.args.items
            result == call.result
        IN  /\ storage = items
            /\ Range(result) = { items[i] : i \in DueIndices(items, call.now) }
            /\ Len(result) = Cardinality(DueIndices(items, call.now))
            /\ \A i, j \in 1..Len(result) :
                  i < j => IndexOfId(items, result[i].id) < IndexOfId(items, result[j].id)
            /\ items = <<>> => result = <<>>
            /\ call.now = 0 => result = <<>>
            /\ (\A i \in 1..Len(items) : items[i].nextReviewAt < call.now)
                  => result = items

\* a query that returns some items and not others, one of them due this instant
C13_Witness ==
    /\ call.op = "due"
    /\ Len(call.result) >= 1
    /\ Len(call.result) < Len(call.args.items)
    /\ \E i \in 1..Len(call.result) : call.result[i].nextReviewAt = call.now
    /\ call.result[1] # call.args.items[1]

\* C16: for every collection and time, pendingReviews of the statistics is
\* the number of items the due query returns, and totalItems the collection's
\* size.
C16_PendingAgrees ==
    call.op = "stats" =>
        /\ call.result.pendingReviews
             = Len(getTodayReviewItems(call.args.items, call.now))
        /\ call.result.totalItems = Len(call.args.items)

\* statistics of a collection with an item due this instant and one not due
C16_Witness ==
    /\ call.op = "stats"
    /\ call.result.pendingReviews >= 1
    /\ call.result.pendingReviews < call.result.totalItems
    /\ \E i \in 1..Len(call.args.items) : call.args.items[i].nextReviewAt = call.now

ReviewedCount(items) ==
    Cardinality({ i \in 1..Len(items) : items[i].lastReviewedAt > 0 })

\* C17 as stated: progress is 0 for an empty collection, otherwise the rounded
\* percentage of reviewed items, within 0..100, and 100 exactly when every
\* item has been reviewed.
C17_Original ==
    call.op = "progress" =>
        LET n == Len(call.args.items)
            r == ReviewedCount(call.args.items)
        IN  /\ n = 0 => call.result = 0
            /\ n > 0 => /\ call.result \in 0..100
                        /\ (call.result = 100 <=> r = n)

\* C17 amended: progress is 0 for an empty collection, otherwise an integer
\* nearest to the percentage of reviewed items, within 0..100; it is 100 when
\* every item has been reviewed, and exactly when at least 99.5% have been.
C17_Progress ==
    call.op = "progress" =>
        LET n == Len(call.args.items)
            r == ReviewedCount(call.args.items)
        IN  /\ n = 0 => call.result = 0
            /\ n > 0 => /\ call.result \in 0..100
                        /\ 2 * n * call.result <= 200 * r + n
                        /\ 2 * n * call.result >= 200 * r - n
                        /\ r = n => call.result = 100
                        /\ (call.result = 100 <=> 200 * r >= 199 * n)

\* progress 100 for a collection with an item never reviewed
C17_Witness ==
    /\ call.op = "progress"
    /\ call.result = 100
    /\ \E i \in 1..Len(call.args.items) : call.args.items[i].lastReviewedAt = 0

DayOf(t) == t \div 86400000

ReviewedDays(items) ==
    { DayOf(items[i].lastReviewedAt) :
        i \in { j \in 1..Len(items) : items[j].lastReviewedAt > 0 } }

\* the number of consecutive days, ending today and going back, each reviewed
ConsecutiveDays(items, now) ==
    Cardinality({ k \in 0..DayOf(now) :
                    \A j \in 0..k : (DayOf(now) - j) \in ReviewedDays(items) })

\* C18: studyStreak is the number of consecutive calendar days, ending on
\* now's day and going back one day at a time, each with a reviewed item; so
\* it is at least 1 whenever an item was reviewed today (for collections with
\* no review later than now).
C18_StreakValue ==
    (/\ call.op = "streak"
     /\ \A i \in 1..Len(call.args.items) :
           call.args.items[i].lastReviewedAt <= call.now)
        => call.result = ConsecutiveDays(call.args.items, call.now)

\* C19: if no item was reviewed on now's calendar day the streak is 0, also
\* when the last review was yesterday and when nothing was ever reviewed.
C19_StreakReset ==
    (call.op = "streak" /\ DayOf(call.now) \notin ReviewedDays(call.args.items))
        => call.result = 0

\* the last review was yesterday, the day before was reviewed too: streak 0
C19_Witness ==
    /\ call.op = "streak"
    /\ DayOf(call.now) \notin ReviewedDays(call.args.items)
    /\ (DayOf(call.now) - 1) \in ReviewedDays(call.args.items)
    /\ (DayOf(call.now) - 2) \in ReviewedDays(call.args.items)
    /\ call.result = 0

\* the submissions in flight all rate the same stored item and have all ended
SameItemDone(itemId) ==
    /\ IndexOfId(storage, itemId) > 0
    /\ \A t \in TaskIds : tasks[t].pc = "done" /\ tasks[t].itemId = itemId

\* C20: when the review submissions handled at once all rate the same item,
\* the collection afterwards holds exactly one record with that id, and it is
\* the whole updated item of the submission whose save finished last.
C20_LastWriteWins ==
    tasks # <<>> =>
        \A itemId \in 1..nextId :
            SameItemDone(itemId) =>
                /\ Cardinality({ i \in 1..Len(storage) : storage[i].id = itemId }) = 1
                /\ \E t \in TaskIds :
                      /\ tasks[t].saved = MaxTasks
                      /\ storage[IndexOfId(storage, itemId)] = tasks[t].updatedItem

\* two submissions of one item ended with different updated items, the first
\* saved last, and the queue was written in the other order
C20_Witness ==
    /\ tasks # <<>>
    /\ SameItemDone(1)
    /\ tasks[1].saved = MaxTasks
    /\ tasks[1].updatedItem # tasks[2].updatedItem
    /\ storage[1] = tasks[1].updatedItem
    /\ pendingSync[1] = tasks[2].updatedItem

\* C22: a passing review of an item whose stored interval is exactly 0 gives
\* interval 1, not 6 and not 0; and no operation of the engine gives interval
\* 0 from an item with interval >= 1 and no creation does.
C22_ZeroInterval ==
    /\ (Reviewed /\ call.args.item.interval = 0
                 /\ call.args.result.quality >= 3)
          => call.result.interval = 1
    /\ (Reviewed /\ call.args.item.interval >= 1) => call.result.interval >= 1
    /\ Created => call.result.interval = 1

\* an item with interval 0 passed a review
C22_Witness ==
    /\ Reviewed
    /\ call.args.item.interval = 0
    /\ call.args.result.quality >= 3
    /\ call.result.interval = 1

\* C24: for an item with interval >= 1 and easeFactor >= 1.3 a review with
\* quality >= 3 gives an interval strictly greater than the stored one (6 from
\* 1), and the time from the review to the next one is that longer interval.
C24_PassLengthens ==
    (/\ Reviewed
     /\ call.args.result.quality >= 3
     /\ call.args.item.interval >= 1
     /\ call.args.item.easeFactor >= 130)
        => /\ call.result.interval > call.args.item.interval
           /\ call.args.item.interval = 1 => call.result.interval = 6
           /\ call.result.nextReviewAt - call.result.lastReviewedAt
                 > call.args.item.interval * 86400000

\* the smallest step: interval 2 at the lowest ease factor becomes 3
C24_Witness ==
    /\ Reviewed
    /\ call.args.result.quality >= 3
    /\ call.args.item.interval = 2
    /\ call.args.item.easeFactor = 130
    /\ call.result.interval = 3

\* the submissions in flight rate different stored items and have all ended
DifferentItemsDone ==
    /\ tasks # <<>>
    /\ \A t \in TaskIds : tasks[t].pc = "done" /\ tasks[t].saved > 0
    /\ \A t, u \in TaskIds : t # u => tasks[t].itemId # tasks[u].itemId

\* C25: when saves of different item ids run at once, interleaved at their
\* awaits, the stored collection holds the new version of every one of the
\* items after all of them have ended.
C25_NoLostUpdate ==
    DifferentItemsDone =>
        \A t \in TaskIds : tasks[t].updatedItem \in Range(storage)

Ids(items) == { items[i].id : i \in 1..Len(items) }

\* how many records of a sequence carry an id
CountOfId(items, id) == Cardinality({ i \in 1..Len(items) : items[i].id = id })

VersionOf(items, id) == items[IndexOfId(items, id)]

\* C23: mergeItems(local, cloud) returns one item per id of either input: for
\* an id on both sides the cloud version if its lastReviewedAt is strictly
\* greater, else the local version; for an id on one side that version; so
\* no local item comes out with a lower lastReviewedAt than it went in with.
C23_Merge ==
    call.op = "merge" =>
        LET localItems == call.args.localItems
            cloudItems == call.args.cloudItems
            result == call.result
        IN  /\ Ids(result) = Ids(localItems) \cup Ids(cloudItems)
            /\ \A id \in Ids(result) : CountOfId(result, id) = 1
            /\ \A id \in Ids(localItems) \ Ids(cloudItems) :
                  VersionOf(result, id) = VersionOf(localItems, id)
            /\ \A id \in Ids(cloudItems) \ Ids(localItems) :
                  VersionOf(result, id) = VersionOf(cloudItems, id)
            /\ \A id \in Ids(localItems) \cap Ids(cloudItems) :
                  VersionOf(result, id) =
                      IF VersionOf(cloudItems, id).lastReviewedAt
                            > VersionOf(localItems, id).lastReviewedAt
                      THEN VersionOf(cloudItems, id)
                      ELSE VersionOf(localItems, id)
            /\ \A id \in Ids(localItems) :
                  VersionOf(result, id).lastReviewedAt
                      >= VersionOf(localItems, id).lastReviewedAt

\* a merge in which the cloud version of item 1 is newer and wins, item 2 is
\* tied and stays local although the versions differ, and item 7 is new
C23_Witness ==
    /\ call.op = "merge"
    /\ Ids(call.args.localItems) = {1, 2}
    /\ Ids(call.args.cloudItems) = {1, 2, 7}
    /\ VersionOf(call.result, 1) = VersionOf(call.args.cloudItems, 1)
    /\ VersionOf(call.result, 1) # VersionOf(call.args.localItems, 1)
    /\ VersionOf(call.result, 2) = VersionOf(call.args.localItems, 2)
    /\ VersionOf(call.result, 2) # VersionOf(call.args.cloudItems, 2)
    /\ sync.pc = "queue"
    /\ storage = call.result

\* C26: a version saved after the sync has read the local collection and
\* before it writes the merged one is still in the collection after that
\* write.
C26_SaveSurvivesSync ==
    [][ (sync.pc = "write" /\ sync'.pc = "queue")
          => \A item \in Range(storage) \ Range(sync.localItems) :
                 item \in Range(storage') ]_vars

\* C27: no item whose deleteLearningItem had completed before a full sync
\* began is in the local collection during or after that sync.
C27_DeletionDurable ==
    \A i \in 1..Len(storage) : storage[i].id \notin sync.after

\* C28: after a full sync that returned success, with no save before or
\* along it, the pending-sync queue is empty.
C28_QueueDrains ==
    (sync.pc = "idle" /\ sync.runs >= 1 /\ handled = 0) => pendingSync = <<>>

\* C29: in a review session over a queue of n >= 1 items, a rating whose save
\* succeeded and a skip each move currentIndex on by exactly one while
\* currentIndex < n - 1 (the rating also counts one more reviewed item) and,
\* on the last item, empty the review queue and show the home page; a rating
\* whose save failed leaves the page as it was; and whenever ReviewPage shows
\* a non-empty queue, currentIndex < n and reviewedCount <= n, so a session
\* is over after at most n such actions.
C29_SessionProgress ==
    [][ LET n == Len(uiStore.reviewQueue)
            i == reviewPage.currentIndex
            rated(m) == Mounted /\ m.instance = reviewPage.instance
            skipped ==
                /\ Mounted
                /\ mutations' = mutations
                /\ \/ uiStore'.reviewQueue # uiStore.reviewQueue
                   \/ /\ uiStore'.currentPage = "review"
                      /\ reviewPage'.currentIndex # i
            progressed(count) ==
                IF i < n - 1
                THEN /\ uiStore' = uiStore
                     /\ reviewPage'.currentIndex = i + 1
                     /\ reviewPage'.reviewedCount =
                            reviewPage.reviewedCount + count
                ELSE /\ uiStore'.reviewQueue = <<>>
                     /\ uiStore'.currentPage = "home"
        IN  /\ \A m \in mutations \ mutations' :
                   (rated(m) /\ n >= 1) =>
                       IF handled' = handled + 1
                       THEN progressed(1)
                       ELSE reviewPage' = reviewPage /\ uiStore' = uiStore
            /\ (skipped /\ n >= 1) => progressed(0)
            /\ (uiStore'.currentPage = "review"
                    /\ uiStore'.reviewQueue # <<>>) =>
                   /\ reviewPage'.currentIndex < Len(uiStore'.reviewQueue)
                   /\ reviewPage'.reviewedCount <= Len(uiStore'.reviewQueue)
      ]_vars

\* a session over three items has reached the last one, with a rating saved
\* and an item skipped on the way
C29_Witness ==
    /\ Mounted
    /\ Len(uiStore.reviewQueue) = 3
    /\ reviewPage.currentIndex = 2
    /\ reviewPage.reviewedCount = 1

\* C30: once an action of the app store on learningItems has completed,
\* reviewStats.totalItems is the length of learningItems, every element of
\* reviewQueue is an element of learningItems, and
\* reviewStats.pendingReviews is the length of reviewQueue.
C30_DerivedConsistent ==
    handled >= 1 =>
        /\ appStore.reviewStats.totalItems = Len(appStore.learningItems)
        /\ Range(appStore.reviewQueue) \subseteq Range(appStore.learningItems)
        /\ appStore.reviewStats.pendingReviews = Len(appStore.reviewQueue)

====
